---- MODULE Spec2Model ----
(***************************************************************************)
(* Model of run_role_check_fallback_1.5.py: the batch driver main() and    *)
(* the bounded-retry extraction call analyze_file().                       *)
(*                                                                         *)
(* A file name is a record [stem, suffix]; the stem is a sequence of       *)
(* character codes (1 for "a", 2 for "b"), so that sorted() has something  *)
(* to order.  A Python dict is a function from its keys to its values, a   *)
(* Python None is the record None.  The external service is the only       *)
(* source of nondeterminism after start-up: every call draws its outcome   *)
(* from Outcomes.                                                          *)
(***************************************************************************)
EXTENDS Integers, Sequences, FiniteSets, TLC

\* ------------------------------------------------------------------ bounds
\* Largest number of entries the input directory holds.
MaxFiles == 2

\* ------------------------------------------------------- Python primitives
None == [type |-> "NoneType"]

\* range(2) of the retry loop.
ATTEMPTS == 2

Exc(cls, msg) == [cls |-> cls, msg |-> msg]

\* The classes of the model's exceptions that are subclasses of Exception.
ExceptionSubclasses ==
    {"APIConnectionError", "AttributeError", "JSONDecodeError", "ValueError",
     "TypeError", "OSError"}

\* A narrower handler: except ValueError.
CaughtValueErrorOnly(e) == e.cls \in {"ValueError", "JSONDecodeError"}

\* except Exception as e
Caught(e) == e.cls \in ExceptionSubclasses

\* ------------------------------------------------------------ file system
File(stem, suffix) == [stem |-> stem, suffix |-> suffix]

\* The entries an input directory may hold.
Entries ==
    { File(<<2>>, "txt"), File(<<1, 2>>, "txt"), File(<<1>>, "txt"),
      File(<<1>>, "md") }

\* Lexicographic order of two stems (Path ordering within one directory,
\* for names with the same suffix).
RECURSIVE LexLess(_, _)
LexLess(s, t) ==
    IF t = <<>> THEN FALSE
    ELSE IF s = <<>> THEN TRUE
    ELSE IF s[1] # t[1] THEN s[1] < t[1]
    ELSE LexLess(Tail(s), Tail(t))

PathLess(f, g) ==
    \/ LexLess(f.stem, g.stem)
    \/ f.stem = g.stem /\ f.suffix = "md" /\ g.suffix = "txt"

\* A pattern that matches every entry: glob("*").
glob_any(d) == d

\* SAMPLE_DIR.glob("*.txt")
glob_txt(d) == {f \in d : f.suffix = "txt"}

\* An ordering slip: largest first.
RECURSIVE sorted_reverse(_)
sorted_reverse(S) ==
    IF S = {} THEN <<>>
    ELSE LET m == CHOOSE f \in S : \A g \in S \ {f} : PathLess(g, f)
         IN  <<m>> \o sorted_reverse(S \ {m})

\* sorted(...)
RECURSIVE sorted(_)
sorted(S) ==
    IF S = {} THEN <<>>
    ELSE LET m == CHOOSE f \in S : \A g \in S \ {f} : PathLess(f, g)
         IN  <<m>> \o sorted(S \ {m})

\* fp.read_text(...): the text of a readable file (identified by its name).
read_text(f) == <<"text of", f.stem>>

\* ------------------------------------------------------- external service
SYSTEM_PROMPT == "You are a strict document-based classifier. ..."

\* A request that sends the bare text, without the DOCUMENT: header.
RequestBareText(text_) == [system |-> SYSTEM_PROMPT, user |-> <<text_>>]

\* messages=[system, user] of the request
Request(text) == [system |-> SYSTEM_PROMPT, user |-> <<"DOCUMENT:\n", text>>]

Usage(p, c) == [prompt_tokens |-> p, completion_tokens |-> c, total_tokens |-> p + c]

\* resp.usage is Optional in the client library.
Usages == {Usage(3, 2), Usage(4, 1)}

\* JSON objects the service may send.
ObjSupported ==
    [name |-> "Alice", stated_occupation |-> "baker", baker_status |-> "SUPPORTED",
     evidence |-> <<"she bakes bread daily">>, reason |-> "bakes"]
ObjMissingReason ==
    [name |-> "Alice", stated_occupation |-> "baker", baker_status |-> "SUPPORTED",
     evidence |-> <<"she bakes bread daily">>]
ObjModelError ==
    [name |-> "Bob", stated_occupation |-> "baker", baker_status |-> "ERROR",
     evidence |-> <<"paperwork">>, reason |-> "unsure"]
ObjOddShape ==
    [name |-> "", stated_occupation |-> "", baker_status |-> "MAYBE",
     evidence |-> <<"a", "b", "c", "d">>, reason |-> "four snippets"]

\* resp.choices[0].message.content
Contents ==
    { [kind |-> "text"],
      [kind |-> "json", value |-> [type |-> "list"]],
      [kind |-> "json", value |-> [type |-> "dict", items |-> ObjMissingReason]],
      [kind |-> "json", value |-> [type |-> "dict", items |-> ObjSupported]],
      [kind |-> "json", value |-> [type |-> "dict", items |-> ObjModelError]],
      [kind |-> "json", value |-> [type |-> "dict", items |-> ObjOddShape]] }

\* What one client.chat.completions.create(...) can do.
Outcomes ==
    { [kind |-> "raise", exc |-> Exc("APIConnectionError", "Connection error.")] }
    \cup { [kind |-> "resp", usage |-> u, content |-> c] :
             u \in Usages \cup {None}, c \in Contents }

\* json.loads(content)
json_loads(content) ==
    IF content.kind = "json"
    THEN [raised |-> FALSE, value |-> content.value]
    ELSE [raised |-> TRUE,
          exc |-> Exc("JSONDecodeError", "Expecting value: line 1 column 1 (char 0)")]

required == {"name", "stated_occupation", "baker_status", "evidence", "reason"}

\* A check that forgets one key.
issubset_four(result) ==
    {"name", "stated_occupation", "baker_status", "evidence"} \subseteq DOMAIN result

\* required.issubset(result.keys())
issubset_required(result) == required \subseteq DOMAIN result

\* A return that loses the usage stats.
PairNoUsage(result, usage) == [kind |-> "pair", result |-> result, usage |-> None]

Pair(result, usage) == [kind |-> "pair", result |-> result, usage |-> usage]

\* The body of the try block for one outcome of the external call: either
\* the returned pair or the exception raised.
TryBody(out) ==
    IF out.kind = "raise" THEN [ok |-> FALSE, exc |-> out.exc]
    ELSE IF out.usage = None
    THEN [ok |-> FALSE,
          exc |-> Exc("AttributeError",
                      "'NoneType' object has no attribute 'prompt_tokens'")]
    ELSE LET parsed == json_loads(out.content) IN
         IF parsed.raised THEN [ok |-> FALSE, exc |-> parsed.exc]
         ELSE IF parsed.value.type # "dict"
         THEN [ok |-> FALSE,
               exc |-> Exc("AttributeError", "'list' object has no attribute 'keys'")]
         ELSE IF ~issubset_required(parsed.value.items)
         THEN [ok |-> FALSE, exc |-> Exc("ValueError", "Invalid schema from model")]
         ELSE [ok |-> TRUE, ret |-> Pair(parsed.value.items, out.usage)]

\* A record that drops the message of the exception.
ErrorRecordNoMessage(e) ==
    [name |-> "", stated_occupation |-> "", baker_status |-> "ERROR",
     evidence |-> <<>>, reason |-> "Processing failure: "]

\* The record of the except branch.
ErrorRecord(e) ==
    [name |-> "", stated_occupation |-> "", baker_status |-> "ERROR",
     evidence |-> <<>>, reason |-> "Processing failure: " \o e.msg]

\* A handler that gives up on the first failure.
IsLastAttemptFirst(attempt_) == attempt_ = 0

\* A handler that never gives up inside the loop.
IsLastAttemptNever(attempt_) == attempt_ = 2

\* if attempt == 1
IsLastAttempt(attempt_) == attempt_ = 1

\* ------------------------------------------------------------------ state
VARIABLES
    apiKey,            \* OPENAI_API_KEY is set
    dirExists,         \* SAMPLE_DIR.exists()
    dir,               \* entries of the input directory
    unreadable,        \* entries whose read_text raises OSError
    pc,                \* position of the program
    error,             \* the exception that ended the run, or None
    files,             \* files of main
    idx,               \* number of files the for loop has taken
    text,              \* text of main (<<>> before the first read)
    attempt,           \* attempt of analyze_file
    log,               \* what the current analyze_file call did so far
    ret,               \* value analyze_file returned to main
    results,           \* results of main
    total_prompt, total_completion, total_tokens,
    outFile,           \* content of OUT_PATH
    writes,            \* number of times OUT_PATH was written
    v1_pc,             \* position of version 1.0 run on the same input
    v1_results,        \* results of main of version 1.0
    v1_outFile,        \* content of OUT_PATH of version 1.0
    failure_free       \* every first call so far was well-formed, with usage

vars == <<apiKey, dirExists, dir, unreadable, pc, error, files, idx, text,
          attempt, log, ret, results, total_prompt, total_completion,
          total_tokens, outFile, writes, v1_pc, v1_results, v1_outFile,
          failure_free>>

Unset == [kind |-> "unset"]

Init ==
    /\ apiKey \in BOOLEAN
    /\ dirExists \in BOOLEAN
    /\ dir \in {d \in SUBSET Entries : Cardinality(d) <= MaxFiles}
    /\ dirExists = FALSE => dir = {}
    /\ unreadable \in SUBSET dir
    /\ pc = "import"
    /\ error = None
    /\ files = <<>>
    /\ idx = 0
    /\ text = <<>>
    /\ attempt = 0
    /\ log = <<>>
    /\ ret = Unset
    /\ results = <<>>
    /\ total_prompt = 0
    /\ total_completion = 0
    /\ total_tokens = 0
    /\ outFile = <<>>
    /\ writes = 0
    /\ v1_pc = "import"
    /\ v1_results = <<>>
    /\ v1_outFile = <<>>
    /\ failure_free = TRUE

\* The response parses to a JSON object that has all five required keys.
WellFormed(out) ==
    /\ out.kind = "resp"
    /\ out.content.kind = "json"
    /\ out.content.value.type = "dict"
    /\ required \subseteq DOMAIN out.content.value.items

\* ------------------------------------------------------------ version 1.0
\* run_role_check_1.0.py is run on the same start-up configuration and is
\* given, for each document, the outcome of the first call that version 1.5
\* makes for that document.  Its steps are taken together with the steps of
\* 1.5 for the same document.

\* analyze_file of 1.0 with the required-key check of 1.5 added.
V10_analyze_file_validating(out) ==
    IF out.kind = "raise" THEN [ok |-> FALSE, exc |-> out.exc]
    ELSE LET parsed == json_loads(out.content) IN
         IF parsed.raised THEN [ok |-> FALSE, exc |-> parsed.exc]
         ELSE IF parsed.value.type = "dict" /\ ~issubset_required(parsed.value.items)
         THEN [ok |-> FALSE, exc |-> Exc("ValueError", "Invalid schema from model")]
         ELSE [ok |-> TRUE, ret |-> parsed.value]

\* analyze_file of 1.0: the call and json.loads, nothing caught.
V10_analyze_file(out) ==
    IF out.kind = "raise" THEN [ok |-> FALSE, exc |-> out.exc]
    ELSE LET parsed == json_loads(out.content) IN
         IF parsed.raised THEN [ok |-> FALSE, exc |-> parsed.exc]
         ELSE [ok |-> TRUE, ret |-> parsed.value]

V10_Unchanged == UNCHANGED <<v1_pc, v1_results, v1_outFile>>

\* Module level of 1.0: the API key check.
V10_Import ==
    /\ v1_pc' = IF ~apiKey THEN "exit" ELSE "main"
    /\ UNCHANGED <<v1_results, v1_outFile>>

\* main of 1.0 up to the loop.
V10_MainSetup ==
    /\ IF v1_pc # "main" THEN v1_pc' = v1_pc
       ELSE IF ~dirExists THEN v1_pc' = "exit"
       ELSE IF sorted(glob_txt(dir)) = <<>> THEN v1_pc' = "exit"
       ELSE v1_pc' = "loop"
    /\ v1_results' = <<>>
    /\ UNCHANGED v1_outFile

\* for fp in files: text = fp.read_text(...)
V10_ReadText(fp) ==
    /\ IF v1_pc # "loop" THEN v1_pc' = v1_pc
       ELSE IF fp \in unreadable THEN v1_pc' = "traceback"
       ELSE v1_pc' = "analyze"
    /\ UNCHANGED <<v1_results, v1_outFile>>

\* result = analyze_file(text); result["_file"] = fp.name;
\* results.append(result)
V10_Call(fp, out) ==
    /\ IF v1_pc # "analyze" THEN UNCHANGED <<v1_pc, v1_results>>
       ELSE LET r == V10_analyze_file(out) IN
            IF ~r.ok \/ r.ret.type # "dict"
            THEN /\ v1_pc' = "traceback"
                 /\ v1_results' = v1_results
            ELSE /\ v1_pc' = "loop"
                 /\ v1_results' = Append(v1_results, ("_file" :> fp) @@ r.ret.items)
    /\ UNCHANGED v1_outFile

\* OUT_PATH.write_text(json.dumps(results, indent=2)) of 1.0
V10_WriteReport ==
    /\ IF v1_pc # "loop" THEN UNCHANGED <<v1_pc, v1_outFile>>
       ELSE /\ v1_outFile' = v1_results
            /\ v1_pc' = "done"
    /\ UNCHANGED v1_results

\* The first call of a document keeps the run failure-free when its response
\* is well-formed and carries usage stats.
FirstCallKeeps(out) ==
    IF log = <<>>
    THEN failure_free' = (failure_free /\ WellFormed(out) /\ out.usage # None)
    ELSE failure_free' = failure_free

\* ---------------------------------------------------------------- actions
\* Exit status of the process: SystemExit with a message, or an uncaught
\* exception, ends it with status 1.
exit_status(e) == IF e = None THEN 0 ELSE 1

Abort(cls, msg, at) ==
    error' = [cls |-> cls, msg |-> msg, at |-> at]

\* Module level: if not API_KEY: raise SystemExit(...)
Import ==
    /\ pc = "import"
    /\ IF ~apiKey
       THEN /\ pc' = "exit"
            /\ Abort("SystemExit", "Missing OPENAI_API_KEY", "import")
       ELSE /\ pc' = "main"
            /\ error' = error
    /\ V10_Import
    /\ UNCHANGED failure_free
    /\ UNCHANGED <<apiKey, dirExists, dir, unreadable, files, idx, text,
                   attempt, log, ret, results, total_prompt,
                   total_completion, total_tokens, outFile, writes>>

\* main(), up to the batch loop: the two precondition checks and the
\* accumulators.
MainSetup ==
    /\ pc = "main"
    /\ IF ~dirExists
       THEN /\ pc' = "exit"
            /\ Abort("SystemExit", "Missing folder", "main")
            /\ files' = files
       ELSE /\ files' = sorted(glob_txt(dir))
            /\ IF files' = <<>>
               THEN /\ pc' = "exit"
                    /\ Abort("SystemExit", "No .txt files found", "main")
               ELSE /\ pc' = "loop"
                    /\ error' = error
    /\ results' = <<>>
    /\ total_prompt' = 0
    /\ total_completion' = 0
    /\ total_tokens' = 0
    /\ V10_MainSetup
    /\ UNCHANGED failure_free
    /\ UNCHANGED <<apiKey, dirExists, dir, unreadable, idx, text, attempt,
                   log, ret, outFile, writes>>

\* A retry counter that outlives the call: attempt is not started afresh.
ReadTextStale ==
    /\ pc = "loop"
    /\ idx < Len(files)
    /\ idx' = idx + 1
    /\ LET fp == files[idx + 1] IN
       IF fp \in unreadable
       THEN /\ pc' = "traceback"
            /\ error' = [cls |-> "OSError", msg |-> "Permission denied", at |-> "read_text"]
            /\ UNCHANGED <<text, attempt, log, ret>>
       ELSE /\ text' = read_text(fp)
            /\ attempt' = attempt
            /\ log' = <<>>
            /\ ret' = [kind |-> "unset"]
            /\ pc' = "analyze"
            /\ error' = error
    /\ V10_ReadText(files[idx + 1])
    /\ UNCHANGED failure_free
    /\ UNCHANGED <<apiKey, dirExists, dir, unreadable, files, results,
                   total_prompt, total_completion, total_tokens, outFile,
                   writes>>

\* for fp in files: text = fp.read_text(...), then the call of analyze_file
\* is entered.
ReadText ==
    /\ pc = "loop"
    /\ idx < Len(files)
    /\ idx' = idx + 1
    /\ LET fp == files[idx + 1] IN
       IF fp \in unreadable
       THEN /\ pc' = "traceback"
            /\ Abort("OSError", "Permission denied", "read_text")
            /\ UNCHANGED <<text, attempt, log, ret>>
       ELSE /\ text' = read_text(fp)
            /\ attempt' = 0
            /\ log' = <<>>
            /\ ret' = Unset
            /\ pc' = "analyze"
            /\ error' = error
    /\ V10_ReadText(files[idx + 1])
    /\ UNCHANGED failure_free
    /\ UNCHANGED <<apiKey, dirExists, dir, unreadable, files, results,
                   total_prompt, total_completion, total_tokens, outFile,
                   writes>>

Call(out) == [ev |-> "call", attempt |-> attempt, request |-> Request(text), out |-> out]

Sleep == [ev |-> "sleep"]

\* One iteration of the retry loop of analyze_file: the external call, the
\* rest of the try block, and the except branch.
Attempt ==
    /\ pc = "analyze"
    /\ \E out \in Outcomes :
         /\ V10_Call(files[idx], out)
         /\ FirstCallKeeps(out)
         /\ LET r == TryBody(out) IN
             IF r.ok
             THEN /\ ret' = r.ret
                  /\ log' = Append(log, Call(out))
                  /\ pc' = "returned"
                  /\ UNCHANGED <<attempt, error>>
             ELSE IF ~Caught(r.exc)
             THEN /\ pc' = "traceback"
                  /\ Abort(r.exc.cls, r.exc.msg, "analyze_file")
                  /\ log' = Append(log, Call(out))
                  /\ UNCHANGED <<attempt, ret>>
             ELSE IF IsLastAttempt(attempt)
             THEN /\ ret' = Pair(ErrorRecord(r.exc), None)
                  /\ log' = Append(log, Call(out))
                  /\ pc' = "returned"
                  /\ UNCHANGED <<attempt, error>>
             ELSE \* time.sleep(1), then the next value of range(2), if any
                  /\ log' = log \o <<Call(out), Sleep>>
                  /\ attempt' = attempt + 1
                  /\ IF attempt + 1 < ATTEMPTS
                     THEN /\ pc' = "analyze"
                          /\ ret' = ret
                     ELSE /\ pc' = "returned"
                          /\ ret' = None
                  /\ error' = error
    /\ UNCHANGED <<apiKey, dirExists, dir, unreadable, files, idx, text,
                   results, total_prompt, total_completion, total_tokens,
                   outFile, writes>>

\* result, usage = analyze_file(...); the totals; result["_file"];
\* results.append(result)
Collect ==
    /\ pc = "returned"
    /\ IF ret = None
       THEN /\ pc' = "traceback"
            /\ Abort("TypeError", "cannot unpack non-iterable NoneType object", "unpack")
            /\ UNCHANGED <<results, total_prompt, total_completion, total_tokens>>
       ELSE /\ IF ret.usage # None
               THEN /\ total_prompt' = total_prompt + ret.usage.prompt_tokens
                    /\ total_completion' = total_completion + ret.usage.completion_tokens
                    /\ total_tokens' = total_tokens + ret.usage.total_tokens
               ELSE UNCHANGED <<total_prompt, total_completion, total_tokens>>
            /\ results' = Append(results, ("_file" :> files[idx]) @@ ret.result)
            /\ pc' = "loop"
            /\ error' = error
    /\ V10_Unchanged
    /\ UNCHANGED failure_free
    /\ UNCHANGED <<apiKey, dirExists, dir, unreadable, files, idx, text,
                   attempt, log, ret, outFile, writes>>

\* A write that does not wait for the end of the loop.
WriteReportEarly ==
    /\ pc = "loop"
    /\ idx >= 1
    /\ outFile' = results
    /\ writes' = writes + 1
    /\ pc' = "done"
    /\ V10_WriteReport
    /\ UNCHANGED failure_free
    /\ UNCHANGED <<apiKey, dirExists, dir, unreadable, error, files, idx,
                   text, attempt, log, ret, results, total_prompt,
                   total_completion, total_tokens>>

\* OUT_PATH.write_text(json.dumps(results, indent=2)) after the loop
WriteReport ==
    /\ pc = "loop"
    /\ idx = Len(files)
    /\ outFile' = results
    /\ writes' = writes + 1
    /\ pc' = "done"
    /\ V10_WriteReport
    /\ UNCHANGED failure_free
    /\ UNCHANGED <<apiKey, dirExists, dir, unreadable, error, files, idx,
                   text, attempt, log, ret, results, total_prompt,
                   total_completion, total_tokens>>

Next ==
    \/ Import
    \/ MainSetup
    \/ ReadText
    \/ Attempt
    \/ Collect
    \/ WriteReport

Spec == Init /\ [][Next]_vars

\* The interpreter keeps running the (sequential) program until it ends.
FairSpec == Spec /\ WF_vars(Next)

TypeOK ==
    /\ pc \in {"import", "main", "loop", "analyze", "returned", "done", "exit", "traceback"}
    /\ idx \in 0..Len(files)
    /\ attempt \in 0..ATTEMPTS
    /\ Len(results) <= Len(files)

\* ------------------------------------------------- vocabulary of the claims
\* The external invocations of the current analyze_file call, in order.
Calls == SelectSeq(log, LAMBDA e : e.ev = "call")

\* The attempt with this outcome ended in the except branch.
Failed(out) == ~TryBody(out).ok

Statuses == {"SUPPORTED", "NOT_FOUND", "CONFLICT", "ERROR"}

\* The start-up configuration is valid: credentials, an existing directory
\* with at least one .txt document, every document readable.
ValidInput ==
    /\ apiKey
    /\ dirExists
    /\ glob_txt(dir) # {}
    /\ unreadable \cap glob_txt(dir) = {}

\* ---------------------------------------------------------------------- C1
\* C1: analyze_file is total.  Whatever the external call does on each
\* attempt, no exception leaves analyze_file, the loop is never left without
\* a return value, and what is returned is a pair of a record with the five
\* required keys and usage stats or None.
C1_AnalyzeFileTotal ==
    /\ pc = "traceback" => error.at \notin {"analyze_file", "unpack"}
    /\ pc = "returned" =>
         /\ ret # None
         /\ ret.kind = "pair"
         /\ required \subseteq DOMAIN ret.result
         /\ ret.usage \in Usages \cup {None}

\* analyze_file has returned after an exception of the service on attempt 1
\* and a JSON list on attempt 2.
C1_Witness ==
    /\ pc = "returned"
    /\ Len(Calls) = 2
    /\ Calls[1].out.kind = "raise"
    /\ Calls[2].out.kind = "resp"
    /\ Calls[2].out.usage # None
    /\ Calls[2].out.content = [kind |-> "json", value |-> [type |-> "list"]]

\* ---------------------------------------------------------------------- C2
\* C2: at most 2 external invocations per document, one per attempt (the
\* i-th invocation belongs to attempt i-1); every invocation but the last
\* failed, so none follows a success; the second happens exactly when the
\* first failed; nothing follows the second.
C2_BoundedRetry ==
    /\ Len(Calls) <= 2
    /\ \A i \in 1..Len(Calls) : Calls[i].attempt = i - 1
    /\ \A i \in 1..(Len(Calls) - 1) : Failed(Calls[i].out)
    /\ pc = "analyze" => Len(Calls) = attempt /\ attempt < 2
    /\ (pc \in {"returned", "loop", "done"} /\ log # <<>>) =>
         /\ Len(Calls) >= 1
         /\ Len(Calls) = 2 <=> Failed(Calls[1].out)

\* Two invocations were made: the first response lacked a key, the second
\* was accepted, and analyze_file has returned.
C2_Witness ==
    /\ pc = "returned"
    /\ Len(Calls) = 2
    /\ Calls[1].out.kind = "resp"
    /\ Calls[1].out.usage # None
    /\ Calls[1].out.content =
         [kind |-> "json", value |-> [type |-> "dict", items |-> ObjMissingReason]]
    /\ ~Failed(Calls[2].out)

\* ---------------------------------------------------------------------- C3
\* C3: when both attempts fail, whatever the failures, analyze_file returns
\* the synthesized record (ERROR, empty name, occupation and evidence) whose
\* reason is non-empty and carries the message of the second failure, and
\* returns None for the usage.
C3_TerminalFailure ==
    (pc = "returned" /\ Len(Calls) = 2 /\ Failed(Calls[1].out) /\ Failed(Calls[2].out)) =>
        /\ ret.usage = None
        /\ ret.result.reason # ""
        /\ ret.result =
             [name |-> "", stated_occupation |-> "", baker_status |-> "ERROR",
              evidence |-> <<>>,
              reason |-> "Processing failure: " \o TryBody(Calls[2].out).exc.msg]

\* Both attempts failed, for different reasons: the service raised on the
\* first, the second response lacked a key; the reason is the second's.
C3_Witness ==
    /\ pc = "returned"
    /\ Len(Calls) = 2
    /\ Calls[1].out.kind = "raise"
    /\ TryBody(Calls[2].out) =
         [ok |-> FALSE, exc |-> Exc("ValueError", "Invalid schema from model")]
    /\ ret.result.reason = "Processing failure: Invalid schema from model"

\* ---------------------------------------------------------------------- C4
\* C4: retry recovers.  When the last attempt made (the first, or the second
\* after a failed first) got a well-formed response with all five keys,
\* analyze_file returns exactly that parsed response and that call's usage.
C4_RetryRecovers ==
    (pc = "returned" /\ Len(Calls) >= 1 /\ WellFormed(Calls[Len(Calls)].out)) =>
        ret = Pair(Calls[Len(Calls)].out.content.value.items,
                   Calls[Len(Calls)].out.usage)

\* ---------------------------------------------------------------------- C5
\* C5: no-crash guarantee.  From a valid start, whatever the external calls
\* do, the run eventually ends with the report written once, with one
\* record per document.
C5_NoCrash ==
    ValidInput =>
        <>(/\ pc = "done"
           /\ writes = 1
           /\ Len(outFile) = Cardinality(glob_txt(dir)))

\* A report of two records was written, both of them ERROR records.
C5_Witness ==
    /\ pc = "done"
    /\ writes = 1
    /\ Len(outFile) = 2
    /\ \A i \in 1..2 : outFile[i].baker_status = "ERROR" /\ outFile[i].name = ""

\* ---------------------------------------------------------------------- C6
\* C6: order preservation.  The written report has one record per .txt
\* document of the directory, no document twice, and the _file values are in
\* strictly increasing lexicographic order.
C6_OrderPreserved ==
    writes > 0 =>
        /\ Len(outFile) = Cardinality(glob_txt(dir))
        /\ {outFile[i]._file : i \in 1..Len(outFile)} = glob_txt(dir)
        /\ \A i, j \in 1..Len(outFile) :
             i < j => LexLess(outFile[i]._file.stem, outFile[j]._file.stem)

\* The report of the directory {b.txt, ab.txt} was written: ab.txt first, as
\* an ERROR record, then b.txt, accepted.
C6_Witness ==
    /\ writes = 1
    /\ Len(outFile) = 2
    /\ outFile[1]._file = File(<<1, 2>>, "txt")
    /\ outFile[1].baker_status = "ERROR"
    /\ outFile[2]._file = File(<<2>>, "txt")
    /\ outFile[2].baker_status = "SUPPORTED"

\* ---------------------------------------------------------------------- C7
\* C7: every record appended to the report (and every record written) has
\* the five required keys and _file.
C7_AllKeysPresent ==
    /\ \A i \in 1..Len(results) :
         required \cup {"_file"} \subseteq DOMAIN results[i]
    /\ \A i \in 1..Len(outFile) :
         required \cup {"_file"} \subseteq DOMAIN outFile[i]

\* A document whose first response lacked the key reason has its record in
\* the report: the conforming retry.
C7_Witness ==
    /\ pc = "loop"
    /\ Len(results) >= 1
    /\ Len(Calls) = 2
    /\ Calls[1].out.kind = "resp"
    /\ Calls[1].out.usage # None
    /\ Calls[1].out.content =
         [kind |-> "json", value |-> [type |-> "dict", items |-> ObjMissingReason]]
    /\ results[Len(results)].reason = "bakes"

\* ---------------------------------------------------------------------- C8
\* C8: in every record of the report baker_status is one of the four values
\* and evidence is a list of at most 3 strings.
C8_ShapeOfValues ==
    \A i \in 1..Len(results) :
        /\ results[i].baker_status \in Statuses
        /\ Len(results[i].evidence) <= 3

\* ---------------------------------------------------------------------- C9
\* C9: an ERROR record is only ever the synthesized one: a record returned
\* by analyze_file with baker_status ERROR comes with no usage and with
\* empty name, stated_occupation and evidence.
C9_ErrorOnlySynthesized ==
    (pc = "returned" /\ ret # None /\ ret.result.baker_status = "ERROR") =>
        /\ ret.usage = None
        /\ ret.result.name = ""
        /\ ret.result.stated_occupation = ""
        /\ ret.result.evidence = <<>>

\* --------------------------------------------------------------------- C10
\* C10: no error of a per-document step (read, extraction call, unpacking
\* and bookkeeping) ends the run; a run ends early only by the SystemExit of
\* a configuration check.
C10_NoDocumentErrorAborts ==
    /\ pc # "traceback"
    /\ pc = "exit" => error.cls = "SystemExit" /\ idx = 0

\* --------------------------------------------------------------------- C11
\* The .txt documents of the input directory.
TxtDocs == {f \in dir : f.suffix = "txt"}

\* C11: fail fast.  Without credentials, without the input directory or
\* without a .txt document the run never gets past the checks: it reads no
\* document, makes no external call and writes no report; and when it stops
\* there it stops by SystemExit with a non-zero status.
C11_FailFast ==
    /\ ~apiKey => pc \in {"import", "exit"}
    /\ (~apiKey \/ ~dirExists \/ TxtDocs = {}) =>
         /\ pc \in {"import", "main", "exit"}
         /\ idx = 0
         /\ text = <<>>
         /\ log = <<>>
         /\ results = <<>>
         /\ writes = 0
         /\ outFile = <<>>
    /\ pc = "exit" =>
         /\ ~apiKey \/ ~dirExists \/ TxtDocs = {}
         /\ error.cls = "SystemExit"
         /\ exit_status(error) # 0

\* The run has stopped on a directory that exists and holds an entry, but
\* no .txt document.
C11_Witness ==
    /\ pc = "exit"
    /\ apiKey
    /\ dirExists
    /\ dir = {File(<<1>>, "md")}
    /\ error.msg = "No .txt files found"

\* --------------------------------------------------------------------- C12
\* C12: the usage line is advisory.  An attempt whose response parses to an
\* object with the five keys is accepted, with or without usage stats: no
\* further attempt follows it and its parsed object is what is returned.
C12_UsageAdvisory ==
    \A i \in 1..Len(Calls) :
        WellFormed(Calls[i].out) =>
            /\ i = Len(Calls)
            /\ pc = "returned" => ret.result = Calls[i].out.content.value.items

\* --------------------------------------------------------------------- C13
\* C13: the contract is the same for every invocation.  Every external call
\* of every document and attempt carries SYSTEM_PROMPT and the verbatim text
\* of the current document (the one the log belongs to, unless the read of
\* the next one has just ended the run), so the second attempt sends what the first sent;
\* and the same key set decides on both attempts: a call that got an object
\* with the five keys (and usage stats) is never followed by another.
C13_ContractIdempotent ==
    /\ \A i \in 1..Len(Calls) :
         /\ Calls[i].request.system = SYSTEM_PROMPT
         /\ pc # "traceback" =>
              Calls[i].request.user = <<"DOCUMENT:\n", read_text(files[idx])>>
    /\ Len(Calls) = 2 => Calls[1].request = Calls[2].request
    /\ \A i \in 1..(Len(Calls) - 1) :
         ~(WellFormed(Calls[i].out) /\ Calls[i].out.usage # None)

\* The second document, b.txt after ab.txt, has made its second call.
C13_Witness ==
    /\ idx = 2
    /\ files[2] = File(<<2>>, "txt")
    /\ Len(Calls) = 2
    /\ Calls[2].request.user = <<"DOCUMENT:\n", <<"text of", <<2>>>>>>
    /\ Calls[1].out.kind = "raise"

\* --------------------------------------------------------------------- C14
Sleeps == SelectSeq(log, LAMBDA e : e.ev = "sleep")

\* C14: the pause.  It occurs at most once per document, only directly after
\* a failed first call and directly before the second call; a finished
\* analyze_file call has paused once if its first attempt failed and not at
\* all otherwise, and nothing follows its last call.
C14_PauseOnce ==
    /\ Len(Sleeps) <= 1
    /\ \A i \in 1..Len(log) :
         log[i].ev = "sleep" =>
            /\ i = 2
            /\ log[1].ev = "call"
            /\ log[1].attempt = 0
            /\ Failed(log[1].out)
    /\ \A i \in 1..Len(log) :
         (log[i].ev = "call" /\ log[i].attempt = 1) =>
            i = 3 /\ log[2].ev = "sleep"
    /\ (pc \in {"returned", "loop", "done"} /\ log # <<>>) =>
         /\ log[Len(log)].ev = "call"
         /\ Len(Sleeps) = IF Failed(log[1].out) THEN 1 ELSE 0

\* A document has failed twice: call, pause, call, and no second pause.
C14_Witness ==
    /\ pc = "returned"
    /\ Len(log) = 3
    /\ Len(Sleeps) = 1
    /\ Failed(log[1].out)
    /\ Failed(log[3].out)
    /\ ret.result.baker_status = "ERROR"

\* --------------------------------------------------------------------- C15
\* What a document's own outcomes determine: the number of calls and the
\* value returned.
Expected(outs) ==
    IF ~Failed(outs[1])
    THEN [n |-> 1, ret |-> [kind |-> "pair",
                            result |-> outs[1].content.value.items,
                            usage |-> outs[1].usage]]
    ELSE IF ~Failed(outs[2])
    THEN [n |-> 2, ret |-> [kind |-> "pair",
                            result |-> outs[2].content.value.items,
                            usage |-> outs[2].usage]]
    ELSE [n |-> 2, ret |-> [kind |-> "pair",
                            result |-> ErrorRecord(TryBody(outs[2]).exc),
                            usage |-> None]]

\* C15: no retry state crosses documents.  Every analyze_file call starts at
\* attempt 0 with nothing done, and on return the number of calls made and
\* the value returned are those its own outcomes determine, whatever the
\* earlier documents did.
C15_DocumentsIndependent ==
    /\ pc = "analyze" => attempt = Len(Calls)
    /\ (pc = "analyze" /\ log = <<>>) => attempt = 0
    /\ pc = "returned" =>
         LET outs == [i \in 1..Len(Calls) |-> Calls[i].out] IN
         /\ Len(Calls) = Expected(outs).n
         /\ ret = Expected(outs).ret

\* The first document ended in the synthesized ERROR record after two
\* attempts; the second still got its two attempts and was accepted on the
\* second.
C15_Witness ==
    /\ pc = "returned"
    /\ idx = 2
    /\ results[1].baker_status = "ERROR"
    /\ results[1].name = ""
    /\ Len(Calls) = 2
    /\ ~Failed(Calls[2].out)
    /\ ret.result.baker_status = "SUPPORTED"

\* --------------------------------------------------------------------- C16
\* C16: the report is written once, at the end.  Nothing is written while a
\* document is unprocessed; the one write happens when the loop has taken
\* every file and appended a record for each, it ends the run, and the
\* file then holds exactly the accumulated results.
C16_WrittenOnceAtEnd ==
    /\ writes <= 1
    /\ writes = 1 <=> pc = "done"
    /\ writes = 0 => outFile = <<>>
    /\ writes = 1 =>
         /\ idx = Len(files)
         /\ Len(results) = Cardinality(TxtDocs)
         /\ outFile = results

\* The report of two documents has been written, an accepted record each.
C16_Witness ==
    /\ pc = "done"
    /\ writes = 1
    /\ Len(outFile) = 2
    /\ outFile[1].baker_status = "SUPPORTED"
    /\ outFile[2].baker_status = "MAYBE"

\* --------------------------------------------------------------------- C17
\* The usage stats of the accepted attempt of the current document, None
\* when its last attempt failed.
AcceptedUsage ==
    IF Failed(Calls[Len(Calls)].out) THEN None ELSE Calls[Len(Calls)].out.usage

\* C17: the totals.  They start at zero; the step that takes a document's
\* result adds the usage stats of that document's accepted attempt, or
\* nothing when the document ended in the synthesized ERROR record; no other
\* step changes them, so usage of a rejected attempt is never added.
C17_TotalsAreSumOfAccepted ==
    /\ total_prompt = 0 /\ total_completion = 0 /\ total_tokens = 0
    /\ [][ IF pc = "returned" /\ pc' = "loop" /\ AcceptedUsage # None
           THEN /\ total_prompt' = total_prompt + AcceptedUsage.prompt_tokens
                /\ total_completion' = total_completion + AcceptedUsage.completion_tokens
                /\ total_tokens' = total_tokens + AcceptedUsage.total_tokens
           ELSE UNCHANGED <<total_prompt, total_completion, total_tokens>> ]_vars

\* Run over two documents: the first ended in the synthesized ERROR record,
\* the second was rejected once with usage (4, 1, 5) and accepted with usage
\* (3, 2, 5); the totals are those of the accepted attempt alone.
C17_Witness ==
    /\ pc = "done"
    /\ Len(results) = 2
    /\ results[1].baker_status = "ERROR"
    /\ results[1].name = ""
    /\ Len(Calls) = 2
    /\ Calls[1].out.kind = "resp"
    /\ Calls[1].out.usage = Usage(4, 1)
    /\ ~Failed(Calls[2].out)
    /\ Calls[2].out.usage = Usage(3, 2)
    /\ total_prompt = 3
    /\ total_completion = 2
    /\ total_tokens = 5

\* --------------------------------------------------------------------- C18
\* The response parses to a JSON object, whatever its keys.
IsJsonObject(out) ==
    /\ out.kind = "resp"
    /\ out.content.kind = "json"
    /\ out.content.value.type = "dict"

\* C18 as stated: when both runs are over, either the run was failure-free
\* and the two reports are identical, or some first attempt failed and 1.0
\* has aborted without a report.
C18_IdenticalOrAborted ==
    pc = "done" =>
        IF failure_free
        THEN v1_pc = "done" /\ v1_outFile = outFile
        ELSE v1_pc = "traceback" /\ v1_outFile = <<>>

\* C18, amended: on a failure-free run the report of 1.5 is the report of
\* 1.0.  1.0 leaves no report unless it ran to its end, and it aborts only
\* on a run that is not failure-free (or where 1.5 aborts too, on a read).
\* For the document 1.0 has reached: if its first call got a JSON object,
\* 1.0 appended that object unchanged (with _file), even when a key is
\* missing or the usage stats are absent; otherwise 1.0 aborted there.
C18_RefinesOnFailureFree ==
    /\ (pc = "done" /\ failure_free) => (v1_pc = "done" /\ v1_outFile = outFile)
    /\ v1_pc # "done" => v1_outFile = <<>>
    /\ v1_pc = "traceback" => (~failure_free \/ pc = "traceback")
    /\ (pc \in {"analyze", "returned", "loop", "done"} /\ log # <<>>
          /\ Len(v1_results) >= idx - 1) =>
         IF IsJsonObject(Calls[1].out)
         THEN /\ v1_pc \in {"loop", "done"}
              /\ Len(v1_results) = idx
              /\ v1_results[idx] =
                   ("_file" :> files[idx]) @@ Calls[1].out.content.value.items
         ELSE /\ v1_pc = "traceback"
              /\ Len(v1_results) = idx - 1

\* Both versions have written the same report of two documents on a
\* failure-free run.
C18_Witness ==
    /\ pc = "done"
    /\ failure_free
    /\ v1_pc = "done"
    /\ Len(outFile) = 2
    /\ v1_outFile = outFile
    /\ outFile[1].baker_status = "SUPPORTED"
    /\ outFile[2].baker_status = "ERROR"

====
